---- MODULE Spec2Model ----
(***************************************************************************)
(* The BanUSave codec of src/index.js: encode(object, game) and            *)
(* decode(buffer), with the value codec encodeValue / decodeValue under    *)
(* them.                                                                   *)
(*                                                                         *)
(* A Buffer is a sequence of bytes 0..255; Buffer offset o is sequence     *)
(* index o + 1.  A JavaScript value is a pair <<tag, payload>>, the tag    *)
(* being what typeof and the tests of encodeValue tell apart:              *)
(*   "null"      payload 0                                                 *)
(*   "boolean"   payload TRUE / FALSE                                      *)
(*   "bigint"    payload [neg, mag]: sign and magnitude, mag 8 base-256    *)
(*               digits                                                    *)
(*   "number"    payload [s, e, fhi, flo]: the IEEE-754 fields of the      *)
(*               double (sign, exponent, top 4 and low 48 fraction bits)   *)
(*   "string"    payload the sequence of its code points                   *)
(*   "array"     payload the sequence of its elements                      *)
(*   "object"    payload the sequence of its <<key, value>> properties in  *)
(*               enumeration order (keys are code point sequences that     *)
(*               are no array indices)                                     *)
(*   "undefined", "function", "symbol"   payload 0                         *)
(* A call's outcome is a pair <<"ok", value>> or <<"throw", error>>; a     *)
(* throw of Node's own carries the class of the error, a throw of index.js *)
(* its message.  x[1] is the tag of a value or the kind of an outcome,     *)
(* x[2] the payload.                                                       *)
(***************************************************************************)
EXTENDS Integers, Sequences, FiniteSets, TLC

VARIABLES pc, argValue, argGame, encResult, wire, how, decResult, sha, fresh

vars == <<pc, argValue, argGame, encResult, wire, how, decResult, sha, fresh>>

(***************************************************************************)
(* Outcomes and JavaScript values                                          *)
(***************************************************************************)
Ok(x) == <<"ok", x>>

Throw(e) == <<"throw", e>>

Null == <<"null", 0>>

Undefined == <<"undefined", 0>>

Bool(b) == <<"boolean", b>>

Str(cps) == <<"string", cps>>

Arr(elems) == <<"array", elems>>

Obj(props) == <<"object", props>>

BigInt(neg, mag) == <<"bigint", [neg |-> neg, mag |-> mag]>>

Num(s, e, fhi, flo) == <<"number", [s |-> s, e |-> e, fhi |-> fhi, flo |-> flo]>>

\* NaN, the result of arithmetic on undefined (offset += undefined).
NaN == -1

Add(a, b) == IF a = NaN \/ b = NaN THEN NaN ELSE a + b

(***************************************************************************)
(* Buffer primitives (Node's Buffer, as index.js uses it)                  *)
(***************************************************************************)
Zeros(n) == [i \in 1..n |-> 0]

Clamp(i, len) == IF i < 0 THEN (IF len + i < 0 THEN 0 ELSE len + i)
                 ELSE IF i > len THEN len ELSE i

\* buf.subarray(start, end): a view, offsets clamped to the buffer.
subarray(buf, start, end) ==
  LET s == Clamp(start, Len(buf))
      e == Clamp(end, Len(buf))
  IN IF e > s THEN SubSeq(buf, s + 1, e) ELSE <<>>

\* buf.readUint8(offset): throws a RangeError for an offset outside the
\* buffer (or NaN).
readUint8(buf, offset) ==
  IF offset = NaN \/ offset < 0 \/ offset >= Len(buf)
  THEN Throw("RangeError")
  ELSE Ok(buf[offset + 1])

(***************************************************************************)
(* UTF-8: Buffer.write / Buffer.from(string) and Buffer.toString()         *)
(***************************************************************************)
utf8Char(cp) ==
  IF cp < 128 THEN <<cp>>
  ELSE IF cp < 2048 THEN <<192 + (cp \div 64), 128 + (cp % 64)>>
  ELSE IF cp >= 55296 /\ cp <= 57343 THEN <<239, 191, 189>>
  ELSE IF cp < 65536
       THEN <<224 + (cp \div 4096), 128 + ((cp \div 64) % 64), 128 + (cp % 64)>>
  ELSE <<240 + (cp \div 262144), 128 + ((cp \div 4096) % 64),
         128 + ((cp \div 64) % 64), 128 + (cp % 64)>>

RECURSIVE utf8Write(_)
utf8Write(cps) ==
  IF cps = <<>> THEN <<>> ELSE utf8Char(Head(cps)) \o utf8Write(Tail(cps))

IsCont(b) == b >= 128 /\ b <= 191

\* The range the second byte of a sequence led by b may lie in.
SecondLo(b) == IF b = 224 THEN 160 ELSE IF b = 240 THEN 144 ELSE 128

SecondHi(b) == IF b = 237 THEN 159 ELSE IF b = 244 THEN 143 ELSE 191

\* One decoding step at index i: <<code point, bytes consumed>>; an
\* ill-formed maximal subpart decodes to U+FFFD (65533).
utf8Step(buf, i) ==
  LET n == Len(buf)
      b0 == buf[i]
      need == IF b0 >= 194 /\ b0 <= 223 THEN 1
              ELSE IF b0 >= 224 /\ b0 <= 239 THEN 2
              ELSE IF b0 >= 240 /\ b0 <= 244 THEN 3 ELSE 0
      ok2 == i + 1 <= n /\ buf[i + 1] >= SecondLo(b0) /\ buf[i + 1] <= SecondHi(b0)
      ok3 == i + 2 <= n /\ IsCont(buf[i + 2])
      ok4 == i + 3 <= n /\ IsCont(buf[i + 3])
  IN IF b0 < 128 THEN <<b0, 1>>
     ELSE IF need = 0 THEN <<65533, 1>>
     ELSE IF ~ok2 THEN <<65533, 1>>
     ELSE IF need = 1 THEN <<(b0 - 192) * 64 + (buf[i + 1] - 128), 2>>
     ELSE IF ~ok3 THEN <<65533, 2>>
     ELSE IF need = 2
          THEN <<(b0 - 224) * 4096 + (buf[i + 1] - 128) * 64 + (buf[i + 2] - 128), 3>>
     ELSE IF ~ok4 THEN <<65533, 3>>
     ELSE <<(b0 - 240) * 262144 + (buf[i + 1] - 128) * 4096
            + (buf[i + 2] - 128) * 64 + (buf[i + 3] - 128), 4>>

RECURSIVE utf8From(_, _)
utf8From(buf, i) ==
  IF i > Len(buf) THEN <<>>
  ELSE LET st == utf8Step(buf, i) IN <<st[1]>> \o utf8From(buf, i + st[2])

\* buf.toString(): the text the bytes decode to as UTF-8.
toString(buf) == utf8From(buf, 1)

(***************************************************************************)
(* 64-bit integers and doubles on the wire                                 *)
(***************************************************************************)
Invert(d) == [i \in 1..Len(d) |-> 255 - d[i]]

\* d + 1 modulo 256^Len(d), d big-endian.
Increment(d) ==
  LET low == {i \in 1..Len(d) : d[i] # 255}
      k == IF low = {} THEN 0 ELSE CHOOSE i \in low : \A j \in low : j <= i
  IN [i \in 1..Len(d) |-> IF i < k THEN d[i] ELSE IF i = k THEN d[i] + 1 ELSE 0]

\* Two's-complement negation of a big-endian 64-bit pattern.
Negate64(d) == Increment(Invert(d))

MinInt64 == <<128, 0, 0, 0, 0, 0, 0, 0>>

\* buf.writeBigInt64BE(value): the 8 bytes, or a throw outside [-2^63, 2^63).
writeBigInt64BE(value) ==
  IF value.mag[1] < 128
  THEN Ok(IF value.neg THEN Negate64(value.mag) ELSE value.mag)
  ELSE IF value.neg /\ value.mag = MinInt64 THEN Ok(value.mag)
  ELSE Throw("RangeError")

\* buf.readBigInt64BE(offset): throws unless 8 bytes lie at the offset.
readBigInt64BE(buf, offset) ==
  IF offset + 8 > Len(buf) THEN Throw("RangeError")
  ELSE LET d == SubSeq(buf, offset + 1, offset + 8)
       IN Ok(IF d[1] >= 128 THEN BigInt(TRUE, Negate64(d)) ELSE BigInt(FALSE, d))

\* buf.writeDoubleBE(value): sign, 11 exponent bits, 52 fraction bits.
writeDoubleBE(value) ==
  <<value.s * 128 + (value.e \div 16), (value.e % 16) * 16 + value.fhi>> \o value.flo

\* buf.readDoubleBE(offset); every NaN pattern reads as the one NaN.
readDoubleBE(buf, offset) ==
  IF offset + 8 > Len(buf) THEN Throw("RangeError")
  ELSE LET d == SubSeq(buf, offset + 1, offset + 8)
           e == (d[1] % 128) * 16 + (d[2] \div 16)
           fhi == d[2] % 16
           flo == SubSeq(d, 3, 8)
       IN Ok(IF e = 2047 /\ (fhi # 0 \/ flo # Zeros(6))
             THEN Num(0, 2047, 8, Zeros(6))
             ELSE Num(d[1] \div 128, e, fhi, flo))

(***************************************************************************)
(* The value codec: encodeValue, encodeObject, encodeArray                 *)
(***************************************************************************)
\* What encodeValue returns for a typeof no case handles.
NoBuffer == <<"undefined", <<>>>>

\* Buffer.concat(list): throws on an entry that is no Buffer.  An entry
\* that threw while the list was built propagates first.
concat(list) ==
  IF \E i \in 1..Len(list) : list[i][1] # "ok"
  THEN LET i == CHOOSE i \in 1..Len(list) :
                  /\ list[i][1] # "ok"
                  /\ \A j \in 1..(i - 1) : list[j][1] = "ok"
       IN IF list[i][1] = "throw" THEN list[i] ELSE Throw("TypeError")
  ELSE LET RECURSIVE join(_)
           join(k) == IF k > Len(list) THEN <<>> ELSE list[k][2] \o join(k + 1)
       IN Ok(join(1))

RECURSIVE encodeValue(_)
RECURSIVE encodeObjectFrom(_, _, _)
RECURSIVE encodeArrayFrom(_, _, _)

\* The loop of encodeObject from property i on, data holding the bytes so far.
encodeObjectFrom(props, i, data) ==
  IF data[1] # "ok" THEN data
  ELSE IF i > Len(props) THEN data
  ELSE LET temp == Ok(utf8Write(props[i][1]) \o <<0>>)
       IN encodeObjectFrom(props, i + 1, concat(<<data, temp, encodeValue(props[i][2])>>))

encodeObject(obj) ==
  LET data == encodeObjectFrom(obj[2], 1, Ok(<<>>))
  IN IF data[1] # "ok" THEN data ELSE concat(<<Ok(<<80>>), data, Ok(<<0>>)>>)

\* The loop of encodeArray from element i on.
encodeArrayFrom(elems, i, data) ==
  IF data[1] # "ok" THEN data
  ELSE IF i > Len(elems) THEN data
  ELSE encodeArrayFrom(elems, i + 1, concat(<<data, encodeValue(elems[i])>>))

encodeArray(array) ==
  LET data == encodeArrayFrom(array[2], 1, Ok(<<>>))
  IN IF data[1] # "ok" THEN data ELSE concat(<<Ok(<<64>>), data, Ok(<<0>>)>>)

\* encodeValue with a default case that encodes a value of any other type
\* as nothing.
encodeValueDefault(value) ==
  CASE value[1] = "boolean" -> Ok(<<IF value[2] THEN 2 ELSE 1>>)
    [] value[1] = "bigint" ->
         LET w == writeBigInt64BE(value[2])
         IN IF w[1] = "throw" THEN w ELSE Ok(<<16>> \o w[2])
    [] value[1] = "number" -> Ok(<<32>> \o writeDoubleBE(value[2]))
    [] value[1] = "string" -> Ok(<<48>> \o utf8Write(value[2]) \o <<0>>)
    [] value[1] = "array" -> encodeArray(value)
    [] value[1] = "null" -> Ok(<<0>>)
    [] value[1] = "object" -> encodeObject(value)
    [] OTHER -> Ok(<<>>)

encodeValue(value) ==
  CASE value[1] = "boolean" -> Ok(<<IF value[2] THEN 2 ELSE 1>>)
    [] value[1] = "bigint" ->
         LET w == writeBigInt64BE(value[2])
         IN IF w[1] = "throw" THEN w ELSE Ok(<<16>> \o w[2])
    [] value[1] = "number" -> Ok(<<32>> \o writeDoubleBE(value[2]))
    [] value[1] = "string" -> Ok(<<48>> \o utf8Write(value[2]) \o <<0>>)
    [] value[1] = "array" -> encodeArray(value)
    [] value[1] = "null" -> Ok(<<0>>)
    [] value[1] = "object" -> encodeObject(value)
    [] OTHER -> NoBuffer

(***************************************************************************)
(* The value codec: decodeValue, decodeArray, decodeObject                 *)
(***************************************************************************)
\* A decoder's return value [decoded, length].
Pair(decoded, length) == Ok([decoded |-> decoded, length |-> length])

\* for (...; data.readUint8(i) !== 0x00; i++): the offset of the first 0x00
\* at or after offset i, or the throw of the read that leaves the buffer.
RECURSIVE scanZero(_, _)
scanZero(data, i) ==
  LET r == readUint8(data, i)
  IN IF r[1] = "throw" THEN r
     ELSE IF r[2] = 0 THEN Ok(i)
     ELSE scanZero(data, i + 1)

\* object[key] = value: a new key is added last, an old one keeps its place.
setProperty(props, key, value) ==
  IF \E i \in 1..Len(props) : props[i][1] = key
  THEN [i \in 1..Len(props) |-> IF props[i][1] = key THEN <<key, value>> ELSE props[i]]
  ELSE Append(props, <<key, value>>)

RECURSIVE decodeValue(_)
RECURSIVE decodeArrayFrom(_, _, _)
RECURSIVE decodeObjectFrom(_, _, _)

\* The while loop of decodeArray at offset, array holding the elements so far.
decodeArrayFrom(data, array, offset) ==
  LET r == readUint8(data, offset)
  IN IF r[1] = "throw" THEN r
     ELSE IF r[2] = 0 THEN Pair(Arr(array), Add(offset, 2))
     ELSE LET d == decodeValue(subarray(data, offset, Len(data)))
          IN IF d[1] = "throw" THEN d
             ELSE decodeArrayFrom(data, Append(array, d[2].decoded),
                                  Add(offset, d[2].length))

decodeArray(data) == decodeArrayFrom(data, <<>>, 0)

\* The while loop of decodeObject at offset.
decodeObjectFrom(data, props, offset) ==
  LET r == readUint8(data, offset)
  IN IF r[1] = "throw" THEN r
     ELSE IF r[2] = 0 THEN Pair(Obj(props), Add(offset, 2))
     ELSE LET z == scanZero(data, offset)
          IN IF z[1] = "throw" THEN z
             ELSE LET key == subarray(data, offset, z[2])
                      d == decodeValue(subarray(data, z[2] + 1, Len(data)))
                  IN IF d[1] = "throw" THEN d
                     ELSE decodeObjectFrom(data,
                                           setProperty(props, toString(key), d[2].decoded),
                                           Add(z[2] + 1, d[2].length))

decodeObject(data) == decodeObjectFrom(data, <<>>, 0)

decodeValue(data) ==
  LET tag == readUint8(data, 0)
  IN IF tag[1] = "throw" THEN tag
     ELSE CASE tag[2] = 0 -> Pair(Null, 1)
            [] tag[2] \in {1, 2} -> Pair(Bool(tag[2] = 2), 1)
            [] tag[2] = 16 ->
                 LET r == readBigInt64BE(data, 1)
                 IN IF r[1] = "throw" THEN r ELSE Pair(r[2], 9)
            [] tag[2] = 32 ->
                 LET r == readDoubleBE(data, 1)
                 IN IF r[1] = "throw" THEN r ELSE Pair(r[2], 9)
            [] tag[2] = 48 ->
                 LET z == scanZero(data, 1)
                 IN IF z[1] = "throw" THEN z
                    ELSE Pair(Str(toString(subarray(data, 1, z[2]))), z[2] + 1)
            [] tag[2] = 64 -> decodeArray(subarray(data, 1, Len(data)))
            [] tag[2] = 80 -> decodeObject(subarray(data, 1, Len(data)))
            [] OTHER -> Pair(Undefined, NaN)

(***************************************************************************)
(* SHA-256.  crypto.createHash("sha256") is modelled as a collision-free   *)
(* oracle: sha records the digest issued for each body hashed so far, and  *)
(* fresh is the digest the oracle answers with when it is asked about a    *)
(* body for the first time, a digest issued for no other body.  The        *)
(* digests are outputs of the real function (of "g\0\0" and of "abc").     *)
(***************************************************************************)
DigestA ==
  <<195, 153, 144, 148, 106, 165, 172, 80, 47, 79, 145, 241, 243, 88, 105, 225,
    195, 153, 68, 91, 3, 142, 24, 44, 84, 109, 185, 186, 120, 18, 19, 13>>

DigestB ==
  <<186, 120, 22, 191, 143, 1, 207, 234, 65, 65, 64, 222, 93, 174, 34, 35,
    176, 3, 97, 163, 150, 23, 122, 156, 180, 16, 255, 97, 242, 0, 21, 173>>

Digests == {DigestA, DigestB}

\* crypto.createHash("sha256").update(data).digest()
Sha256(data) == IF data \in DOMAIN sha THEN sha[data] ELSE fresh

\* The oracle after it answered for data.
Issue(data) == IF data \in DOMAIN sha THEN sha ELSE (data :> fresh) @@ sha

\* The digests left to answer a first query once table is the oracle.
Unissued(table) == {d \in Digests : \A x \in DOMAIN table : table[x] # d}

(***************************************************************************)
(* The envelope codec: encode, decode                                      *)
(***************************************************************************)
\* The text "BANUSAVE2".
Magic == <<66, 65, 78, 85, 83, 65, 86, 69, 50>>

\* The body encode builds: game, 0x00, the encoded value.
body(object, game) ==
  IF game[1] # "string" THEN Throw("Invalid game")
  ELSE concat(<<Ok(utf8Write(game[2])), Ok(<<0>>), encodeValue(object)>>)

encode(object, game) ==
  LET b == body(object, game)
  IN IF b[1] = "throw" THEN b
     ELSE concat(<<Ok(utf8Write(Magic)), b, Ok(Sha256(b[2]))>>)

\* What decode does once the three checks have passed; trimmed tells whether
\* the value codec is handed the body alone, strict whether the consumed
\* length must be the length of what it was handed.
decodeBody(buf, trimmed, strict) ==
  LET z == scanZero(buf, 9)
  IN IF z[1] = "throw" THEN z
     ELSE LET gameBytes == subarray(buf, 9, z[2])
              data == subarray(buf, 10 + Len(gameBytes),
                               IF trimmed THEN Len(buf) - 32 ELSE Len(buf))
              d == decodeValue(data)
          IN IF d[1] = "throw" THEN d
             ELSE IF strict /\ d[2].length # Len(data) THEN Throw("Trailing bytes")
             ELSE Ok(<<d[2].decoded, Str(toString(gameBytes))>>)

\* decode without the checksum check.
decodeUnchecked(buf) ==
  IF Len(buf) < 43 THEN Throw("Invalid buffer length")
  ELSE IF toString(subarray(buf, 0, 9)) # Magic THEN Throw("Invalid buffer header")
  ELSE decodeBody(buf, TRUE, FALSE)

\* decode checking the 8 bytes of the magic "BANUSAVE" alone.
decodeLegacyMagic(buf) ==
  IF Len(buf) < 43 THEN Throw("Invalid buffer length")
  ELSE IF toString(subarray(buf, 0, 8)) # SubSeq(Magic, 1, 8)
       THEN Throw("Invalid buffer header")
  ELSE IF toString(Sha256(subarray(buf, 9, Len(buf) - 32)))
          # toString(subarray(buf, Len(buf) - 32, Len(buf)))
       THEN Throw("Invalid buffer checksum")
  ELSE decodeBody(buf, TRUE, FALSE)

\* decode rejecting a value that does not consume the whole body.
decodeStrict(buf) ==
  IF Len(buf) < 43 THEN Throw("Invalid buffer length")
  ELSE IF toString(subarray(buf, 0, 9)) # Magic THEN Throw("Invalid buffer header")
  ELSE IF toString(Sha256(subarray(buf, 9, Len(buf) - 32)))
          # toString(subarray(buf, Len(buf) - 32, Len(buf)))
       THEN Throw("Invalid buffer checksum")
  ELSE decodeBody(buf, TRUE, TRUE)

\* decode handing the value codec the checksum along with the body.
decodeUntrimmed(buf) ==
  IF Len(buf) < 43 THEN Throw("Invalid buffer length")
  ELSE IF toString(subarray(buf, 0, 9)) # Magic THEN Throw("Invalid buffer header")
  ELSE IF toString(Sha256(subarray(buf, 9, Len(buf) - 32)))
          # toString(subarray(buf, Len(buf) - 32, Len(buf)))
       THEN Throw("Invalid buffer checksum")
  ELSE decodeBody(buf, FALSE, FALSE)

decode(buf) ==
  IF Len(buf) < 43 THEN Throw("Invalid buffer length")
  ELSE IF toString(subarray(buf, 0, 9)) # Magic THEN Throw("Invalid buffer header")
  ELSE IF toString(Sha256(subarray(buf, 9, Len(buf) - 32)))
          # toString(subarray(buf, Len(buf) - 32, Len(buf)))
       THEN Throw("Invalid buffer checksum")
  ELSE LET z == scanZero(buf, 9)
       IN IF z[1] = "throw" THEN z
          ELSE LET gameBytes == subarray(buf, 9, z[2])
                   d == decodeValue(subarray(buf, 10 + Len(gameBytes), Len(buf) - 32))
               IN IF d[1] = "throw" THEN d
                  ELSE Ok(<<d[2].decoded, Str(toString(gameBytes))>>)

(***************************************************************************)
(* Inputs                                                                  *)
(***************************************************************************)
\* The most elements an input array holds.
MaxElems == 2

\* The most properties an input object holds.
MaxProps == 1

\* The most bytes cut into or appended to a body.
MaxExtra == 2

SeqsUpTo(S, n) == UNION {[1..k -> S] : k \in 0..n}

One == BigInt(FALSE, <<0, 0, 0, 0, 0, 0, 0, 1>>)

MinusOne == BigInt(TRUE, <<0, 0, 0, 0, 0, 0, 0, 1>>)

\* 2.5 = 1.25 * 2^1
TwoPointFive == Num(0, 1024, 4, Zeros(6))

\* "x", "é", "x\0y"
StrX == Str(<<120>>)

StrE == Str(<<233>>)

StrNul == Str(<<120, 0, 121>>)

Function == <<"function", 0>>

Symbol == <<"symbol", 0>>

\* Values of the JSONValue union without a NUL in a string.
CleanLeaves == {Null, Bool(TRUE), Bool(FALSE), One, MinusOne, TwoPointFive, StrX, StrE}

\* Values typeof reports as "undefined", "function" or "symbol".
Unsupported == {Undefined, Function, Symbol}

\* Property keys: "k", "", "k\0".
KeyK == <<107>>

KeyEmpty == <<>>

KeyNul == <<107, 0>>

DistinctKeys(props) ==
  \A i, j \in 1..Len(props) : i # j => props[i][1] # props[j][1]

Arrays(S, n) == {Arr(e) : e \in SeqsUpTo(S, n)}

Objects(K, S, n) == {Obj(p) : p \in {q \in SeqsUpTo(K \X S, n) : DistinctKeys(q)}}

\* One more level: an array holding x alone or before a sibling, an object
\* holding x.
Nest(S) == {Arr(<<x>>) : x \in S} \cup {Arr(<<x, One>>) : x \in S}
           \cup {Obj(<<<<KeyK, x>>>>) : x \in S}

\* Game ids: "g", "ga", "", "a\0b", and a game that is no string.
GameG == Str(<<103>>)

GameGa == Str(<<103, 97>>)

GameEmpty == Str(<<>>)

GameNul == Str(<<97, 0, 98>>)

(***************************************************************************)
(* Predicates on values                                                    *)
(***************************************************************************)
RECURSIVE HasNul(_)
\* A string or a property key somewhere in value holds a NUL.
HasNul(value) ==
  CASE value[1] = "string" -> \E i \in 1..Len(value[2]) : value[2][i] = 0
    [] value[1] = "array" -> \E i \in 1..Len(value[2]) : HasNul(value[2][i])
    [] value[1] = "object" ->
         \E i \in 1..Len(value[2]) :
           \/ \E j \in 1..Len(value[2][i][1]) : value[2][i][1][j] = 0
           \/ HasNul(value[2][i][2])
    [] OTHER -> FALSE

RECURSIVE HasUnsupported(_)
\* value, or a descendant of it, is outside the JSONValue union.
HasUnsupported(value) ==
  CASE value[1] \in {"undefined", "function", "symbol"} -> TRUE
    [] value[1] = "array" -> \E i \in 1..Len(value[2]) : HasUnsupported(value[2][i])
    [] value[1] = "object" -> \E i \in 1..Len(value[2]) : HasUnsupported(value[2][i][2])
    [] OTHER -> FALSE

RECURSIVE HasNullElement(_)
\* Some array in value holds null as an element.
HasNullElement(value) ==
  CASE value[1] = "array" ->
         \E i \in 1..Len(value[2]) : value[2][i] = Null \/ HasNullElement(value[2][i])
    [] value[1] = "object" -> \E i \in 1..Len(value[2]) : HasNullElement(value[2][i][2])
    [] OTHER -> FALSE

RECURSIVE HasEmptyKey(_)
\* Some object in value has the property key "".
HasEmptyKey(value) ==
  CASE value[1] = "array" -> \E i \in 1..Len(value[2]) : HasEmptyKey(value[2][i])
    [] value[1] = "object" ->
         \E i \in 1..Len(value[2]) : value[2][i][1] = <<>> \/ HasEmptyKey(value[2][i][2])
    [] OTHER -> FALSE

(***************************************************************************)
(* Operations                                                              *)
(***************************************************************************)
NoStep == [op |-> "none", at |-> 0, byte |-> 0]

Init ==
  /\ pc = "idle"
  /\ argValue = Null
  /\ argGame = Str(<<>>)
  /\ encResult = Throw("none")
  /\ wire = <<>>
  /\ how = NoStep
  /\ decResult = Throw("none")
  /\ sha = <<>>
  /\ fresh \in Digests

\* A call encode(v, g).  When it hashes a body, the oracle records the
\* digest it answered with and readies another for the next first query.
Encode(v, g) ==
  /\ pc = "idle"
  /\ LET b == body(v, g)
         e == encode(v, g)
     IN /\ encResult' = e
        /\ wire' = IF e[1] = "ok" THEN e[2] ELSE <<>>
        /\ pc' = IF e[1] = "ok" THEN "encoded" ELSE "threw"
        /\ IF b[1] = "ok"
           THEN sha' = Issue(b[2]) /\ fresh' \in Unissued(sha')
           ELSE UNCHANGED <<sha, fresh>>
  /\ argValue' = v
  /\ argGame' = g
  /\ how' = [op |-> "encode", at |-> 0, byte |-> 0]
  /\ UNCHANGED decResult

\* A writer other than encode seals the body bytes data into an envelope:
\* the magic, the body, the SHA-256 of the body.  v and g are the value and
\* the game the body was made from.
Seal(data, op, at, v, g) ==
  /\ pc = "idle"
  /\ wire' = utf8Write(Magic) \o data \o Sha256(data)
  /\ sha' = Issue(data)
  /\ fresh' \in Unissued(sha')
  /\ how' = [op |-> op, at |-> at, byte |-> 0]
  /\ pc' = "sealed"
  /\ argValue' = v
  /\ argGame' = g
  /\ UNCHANGED <<encResult, decResult>>

\* One byte of an encoded buffer, at offset i, becomes b.
Alter(op, i, b) ==
  /\ pc = "encoded"
  /\ i < Len(wire)
  /\ wire[i + 1] # b
  /\ wire' = [wire EXCEPT ![i + 1] = b]
  /\ how' = [op |-> op, at |-> i, byte |-> b]
  /\ pc' = "altered"
  /\ UNCHANGED <<argValue, argGame, encResult, decResult, sha, fresh>>

\* An encoded buffer is cut to its first k bytes.
Truncate(k) ==
  /\ pc = "encoded"
  /\ k < Len(wire)
  /\ wire' = SubSeq(wire, 1, k)
  /\ how' = [op |-> "truncate", at |-> k, byte |-> 0]
  /\ pc' = "altered"
  /\ UNCHANGED <<argValue, argGame, encResult, decResult, sha, fresh>>

\* A call decode(wire).
Decode ==
  /\ pc \in {"encoded", "altered", "sealed"}
  /\ decResult' = decode(wire)
  /\ pc' = "decoded"
  /\ UNCHANGED <<argValue, argGame, encResult, wire, how, sha, fresh>>

\* The value codec alone decodes the encoding of v followed by the bytes s.
DecodeValue(v, s) ==
  /\ pc = "idle"
  /\ LET e == encodeValue(v)
     IN /\ e[1] = "ok"
        /\ wire' = e[2] \o s
        /\ decResult' = decodeValue(e[2] \o s)
        /\ how' = [op |-> "value", at |-> Len(e[2]), byte |-> 0]
  /\ argValue' = v
  /\ pc' = "valueDecoded"
  /\ UNCHANGED <<argGame, encResult, sha, fresh>>

(***************************************************************************)
(* SpecCodec: encode on every input value, decode on what encode returned  *)
(***************************************************************************)
CodecLeaves == CleanLeaves \cup {StrNul} \cup Unsupported

\* What arrays and objects hold: one leaf of each case of encodeValue, a
\* string with a NUL, a value of no case.
CodecElements == {Null, Bool(TRUE), One, TwoPointFive, StrX, StrNul, Symbol}

CodecFlat == CodecLeaves \cup Arrays(CodecElements, MaxElems)
             \cup Objects({KeyK, KeyEmpty, KeyNul}, CodecElements, MaxProps)

CodecValues == CodecFlat \cup Nest(CodecFlat \ CodecLeaves)

CodecGames == {GameG, GameNul, Undefined}

EncodeAny == \E v \in CodecValues, g \in CodecGames : Encode(v, g)

NextCodec == EncodeAny \/ Decode

SpecCodec == Init /\ [][NextCodec]_vars

GameHasNul(g) == g[1] = "string" /\ \E i \in 1..Len(g[2]) : g[2][i] = 0

\* C1: for every value v of the union with NUL-free strings and keys, and
\* every NUL-free game id g, decode(encode(v, g)) returns exactly (v, g).
RoundTrip ==
  (/\ pc = "decoded"
   /\ how.op = "encode"
   /\ ~HasNul(argValue)
   /\ ~HasUnsupported(argValue)
   /\ ~GameHasNul(argGame))
  => decResult = Ok(<<argValue, argGame>>)

\* C2: encode fails, and returns no bytes, whenever the game id, a string of
\* the value tree or a property key of the value tree holds a NUL.
NulRejected ==
  (/\ pc \in {"encoded", "threw"}
   /\ argGame[1] = "string"
   /\ (GameHasNul(argGame) \/ HasNul(argValue)))
  => (encResult[1] = "throw" /\ wire = <<>>)

\* C8: encode throws, and returns no buffer, whenever the value or a
\* descendant of it in an array or object is undefined, a function or a
\* symbol.
UnsupportedThrows ==
  (/\ pc \in {"encoded", "threw"}
   /\ HasUnsupported(argValue))
  => (pc = "threw" /\ encResult[1] = "throw" /\ wire = <<>>)

\* encode threw a TypeError for an unsupported value nested in an object
\* that sits in an array, the game being a string.
UnsupportedThrowsWitness ==
  /\ pc = "threw"
  /\ argGame = GameG
  /\ argValue = Arr(<<Obj(<<<<KeyK, Symbol>>>>), One>>)
  /\ encResult = Throw("TypeError")

\* Where the round trip does hold: values in which no array has a null
\* element and no object has the key "".
RoundTripUnambiguous ==
  (/\ pc = "decoded"
   /\ how.op = "encode"
   /\ ~HasNul(argValue)
   /\ ~HasUnsupported(argValue)
   /\ ~GameHasNul(argGame)
   /\ ~HasNullElement(argValue)
   /\ ~HasEmptyKey(argValue))
  => decResult = Ok(<<argValue, argGame>>)

(***************************************************************************)
(* SpecTamper: an encoded buffer is altered in one byte, then decoded      *)
(***************************************************************************)
\* Values encode and decode agree on.
TamperValues == {Null, StrX, MinusOne, Arr(<<StrX>>), Obj(<<<<KeyK, Bool(TRUE)>>>>)}

TamperGames == {GameG, GameEmpty}

\* The bytes a tampered offset is set to: NUL, an unused tag, "A", "B", two
\* lone continuation bytes, a lead byte.
TamperBytes == {0, 3, 65, 66, 128, 129, 194}

EncodeSample == \E v \in TamperValues, g \in TamperGames : Encode(v, g)

\* A byte of the body or of the checksum changes.
Tamper == \E i \in 9..(Len(wire) - 1), b \in TamperBytes : Alter("tamper", i, b)

\* A byte of the magic changes.
TamperHeader == \E i \in 0..8, b \in TamperBytes : Alter("header", i, b)

NextTamper == EncodeSample \/ Tamper \/ TamperHeader \/ Decode

SpecTamper == Init /\ [][NextTamper]_vars

\* C3: changing one byte of the body or of the checksum of a buffer encode
\* produced makes decode fail with the checksum error.
TamperDetected ==
  (pc = "decoded" /\ how.op = "tamper") => decResult = Throw("Invalid buffer checksum")

\* C7: decode of a buffer of 43 bytes or more whose first 9 bytes are not
\* "BANUSAVE2" fails with the header error, its checksum being right or not.
HeaderRejected ==
  (/\ pc = "decoded"
   /\ Len(wire) >= 43
   /\ SubSeq(wire, 1, 9) # Magic)
  => decResult = Throw("Invalid buffer header")

\* A buffer with the right checksum and a magic byte replaced by a byte
\* that is no text was rejected for its header.
HeaderRejectedWitness ==
  /\ pc = "decoded"
  /\ how.op = "header"
  /\ how.byte >= 128
  /\ Sha256(subarray(wire, 9, Len(wire) - 32)) = subarray(wire, Len(wire) - 32, Len(wire))
  /\ decResult = Throw("Invalid buffer header")

(***************************************************************************)
(* SpecTruncate: an encoded buffer is cut short, then decoded              *)
(***************************************************************************)
\* Every buffer encode returns counts here, so the values include arrays
\* with a null element.
TruncateValues == TamperValues \cup {Arr(<<Null>>), Arr(<<Null, StrX>>)}

EncodeWhole == \E v \in TruncateValues, g \in TamperGames : Encode(v, g)

TruncateAny == \E k \in 0..(Len(wire) - 1) : Truncate(k)

NextTruncate == EncodeWhole \/ TruncateAny \/ Decode

SpecTruncate == Init /\ [][NextTruncate]_vars

\* C6: decode of the first k bytes of a buffer encode produced, k less than
\* its length, fails and returns no value.
TruncationFails ==
  (pc = "decoded" /\ how.op = "truncate") => decResult[1] = "throw"

\* A buffer cut to 43 bytes or more, which passes the length and the header
\* check, fails the checksum check.
TruncationFailsWitness ==
  /\ pc = "decoded"
  /\ how.op = "truncate"
  /\ how.at >= 43
  /\ decResult = Throw("Invalid buffer checksum")

(***************************************************************************)
(* SpecSeal: bodies other than encode's, sealed with the right checksum,   *)
(* then decoded                                                            *)
(***************************************************************************)
SealLeaves == {Bool(TRUE), One, StrX}

\* Values encode and decode agree on: no null element, no empty key.
SealValues == {Null, TwoPointFive} \cup SealLeaves \cup Arrays(SealLeaves, MaxElems)
              \cup Objects({KeyK}, SealLeaves, MaxProps)
              \cup Nest({Arr(<<>>), Arr(<<StrX>>), Obj(<<>>)})

SealGames == {GameG, GameGa, GameEmpty}

\* game, 0x00, the encoded value: the body encode builds for (v, g).
BodyOf(v, g) == body(v, g)[2]

\* Encoded values with a tag no case of decodeValue handles (0x03): alone,
\* as an array element, as a property value.
UnknownTagged == {<<3>>, <<64, 3, 0>>, <<80, 107, 0, 3, 0>>, <<64, 1, 3, 0>>}

\* The bytes that may follow a value in a body.
ExtraBytes == {0, 3, 48}

\* A body whose value position holds an unknown tag.
SealUnknownTag ==
  \E x \in UnknownTagged, g \in SealGames :
    Seal(utf8Write(g[2]) \o <<0>> \o x, "unknown", Len(x), Undefined, g)

\* A body with extra bytes after the encoded value.
SealAppended ==
  \E v \in SealValues \cup {Arr(<<Null>>)}, g \in SealGames,
     x \in SeqsUpTo(ExtraBytes, MaxExtra) \ {<<>>} :
    Seal(BodyOf(v, g) \o x, "append", Len(x), v, g)

\* A body that ends early: the first cut bytes of encode's body.
SealPrefix ==
  \E v \in SealValues, g \in SealGames :
    \E cut \in 1..(Len(BodyOf(v, g)) - 1) :
      Seal(SubSeq(BodyOf(v, g), 1, cut), "prefix", cut, v, g)

NextSeal == SealUnknownTag \/ SealAppended \/ SealPrefix \/ Decode

SpecSeal == Init /\ [][NextSeal]_vars

\* C4: decode of a buffer with valid length, magic and checksum whose body
\* holds an unknown tag at a value position fails and returns no value.
UnknownTagFails ==
  (pc = "decoded" /\ how.op = "unknown") => decResult[1] = "throw"

\* C5 as claimed: a buffer with valid length, magic and checksum whose body
\* holds extra bytes after a fully decoded value is rejected with an error.
StrictConsumption ==
  (pc = "decoded" /\ how.op = "append") => decResult[1] = "throw"

\* The bytes of the encoded value in the body sealed from (argValue, argGame).
SealedValue == encodeValue(argValue)[2]

\* C5 as amended: decode does not compare the consumed length with the
\* remaining body length; when the body is the game id, 0x00, bytes the value
\* codec decodes to a value consuming all of them, and then extra bytes,
\* decode returns that value and the game id.
TrailingIgnored ==
  (/\ pc = "decoded"
   /\ how.op = "append"
   /\ decodeValue(SealedValue)[1] = "ok"
   /\ decodeValue(SealedValue)[2].length = Len(SealedValue))
  => decResult = Ok(<<decodeValue(SealedValue)[2].decoded, argGame>>)

\* An array with an element, followed by two extra bytes, was returned.
TrailingIgnoredWitness ==
  /\ pc = "decoded"
  /\ how.op = "append"
  /\ how.at = 2
  /\ argValue = Arr(<<StrX>>)
  /\ decResult = Ok(<<argValue, argGame>>)

\* C9: decode of a buffer with valid length, magic and checksum whose body
\* ends before the game id's terminator, inside a string or a key, before an
\* array's or object's end marker or inside an 8-byte field fails: the read
\* that leaves its buffer throws a RangeError, and no byte of the checksum
\* is taken for a byte of the value.
MalformedFails ==
  (pc = "decoded" /\ how.op = "prefix")
  => /\ decResult[1] = "throw"
     /\ Len(wire) >= 43 => decResult = Throw("RangeError")

\* A body cut inside a string of an array failed with the RangeError, the
\* checksum that follows the body holding a 0x00.
MalformedFailsWitness ==
  /\ pc = "decoded"
  /\ how.op = "prefix"
  /\ argValue = Arr(<<StrX>>)
  /\ how.at = Len(BodyOf(argValue, argGame)) - 2
  /\ \E i \in 1..32 : wire[Len(wire) - 32 + i] = 0
  /\ decResult = Throw("RangeError")

(***************************************************************************)
(* SpecValue: the value codec alone                                        *)
(***************************************************************************)
ValueSet == CleanLeaves \cup Arrays(CleanLeaves, MaxElems)
            \cup Nest({Arr(<<Null>>), Arr(<<StrX>>), Obj(<<>>)})

DecodeValueAny == \E v \in ValueSet, x \in SeqsUpTo(ExtraBytes, MaxExtra) : DecodeValue(v, x)

NextValue == DecodeValueAny

SpecValue == Init /\ [][NextValue]_vars

\* C10: decodeValue applied to encodeValue(v) followed by any bytes returns
\* (v, n) with n the byte length of encodeValue(v).
ConsumedLength ==
  pc = "valueDecoded" => decResult = Pair(argValue, how.at)

====
